---- MODULE Spec2Model ----
(***************************************************************************)
(* PdfPrinterService (src/src/app/pdf-printer/pdf-printer.service.ts).     *)
(*                                                                         *)
(* print() is an async function; JavaScript runs each stretch of code      *)
(* between two suspension points to completion, so one action models one   *)
(* such stretch: the synchronous prefix of print() up to the first         *)
(* getPage(), and then the continuation that runs when the awaited         *)
(* external step (getPage, render, toBlob callback, image load/error)      *)
(* completes.  Continuations that are chained by promise jobs only (the    *)
(* return of renderPage into renderPages into useRenderedPage) belong to   *)
(* the same action: they touch the locals of one call only.                *)
(***************************************************************************)
EXTENDS Integers, Sequences, FiniteSets

\* ------------------------------------------------------------ bounds
MaxCalls == 2
MaxPages == 2

\* ------------------------------------------------------------ program constants
DefaultPrintResolution == 300
PointsPerInch == 72
CssPixelsPerInch == 96
FullTurn == 360
QuarterTurn == 90

Calls == 1..MaxCalls
Dims == {3, 5}
Rotations == {0, 90, 180, 270}

\* A page view's viewport at scale 1.
Viewports == [width : Dims, height : Dims, rotation : Rotations]

Portrait == [width |-> 3, height |-> 5, rotation |-> 0]
Landscape == [width |-> 5, height |-> 3, rotation |-> 270]
Square == [width |-> 3, height |-> 3, rotation |-> 90]

RECURSIVE SeqsUpTo(_, _)
SeqsUpTo(S, n) ==
  IF n = 0 THEN {<<>>}
  ELSE LET shorter == SeqsUpTo(S, n - 1)
       IN shorter \cup {Append(s, x) : s \in {t \in shorter : Len(t) = n - 1}, x \in S}

\* Math.floor(a * (num / den)) for non-negative integers.
Floor(a, num, den) == (a * num) \div den

VARIABLES
  pages,          \* currentViewer._pages: the viewport of every page view
  useToBlob,      \* 'toBlob' in scratchCanvas && !disableCreateObjectURL
  pc,             \* where each print() call is suspended
  arguments,      \* per call: the argument list print() was called with
  printResolution,\* per call: the effective first argument
  autoRotate,     \* per call: the effective second argument
  pagesOverview,  \* per call: the local pagesOverview
  currentPage,    \* per call: renderPages' loop variable (0-based)
  scratchCanvas,  \* per call: the canvas element the call holds (0: none)
  iframe,         \* per call: the iframe element the call holds (0: none)
  canvases,       \* every canvas element: width, height, what was drawn
  iframeBody,     \* every iframe element: the wrappers appended to its body
  pageStyle,      \* every iframe element: the @page size rule
  bodyChildren,   \* the iframes attached to document.body
  blob,           \* per call: the bitmap toBlob() copied, callback pending
  getPageLog,     \* per call: the page numbers passed to pdfDocument.getPage
  warnings,       \* per call: number of console.warn calls
  printLog,       \* per call: the native print invocations
  result,         \* per call: state of the promise print() returned
  error           \* per call: the rejection reason

vars == <<pages, useToBlob, pc, arguments, printResolution, autoRotate, pagesOverview,
          currentPage, scratchCanvas, iframe, canvases, iframeBody, pageStyle,
          bodyChildren, blob, getPageLog, warnings, printLog, result, error>>

viewerVars == <<pages, useToBlob>>

\* ------------------------------------------------------------ values
White == [page |-> 0, rotation |-> 0, scale |-> 0]
NoCanvas == [width |-> 0, height |-> 0, content |-> <<>>]
NoSize == [width |-> 0, height |-> 0]
NoError == [kind |-> "none", page |-> 0]

\* ------------------------------------------------------------ getPagesOverview
\* Variant: the rotation is advanced without wrapping around a full turn.
RotateUnwrapped(size) ==
  IF size.width <= size.height
    THEN size
    ELSE [width |-> size.height, height |-> size.width,
          rotation |-> size.rotation + QuarterTurn]

RotateToPortrait(size) ==
  IF size.width <= size.height
    THEN size
    ELSE [width |-> size.height, height |-> size.width,
          rotation |-> (size.rotation + QuarterTurn) % FullTurn]

getPagesOverview(pgs, rotate) ==
  LET overview == [i \in 1..Len(pgs) |->
                     [width |-> pgs[i].width, height |-> pgs[i].height,
                      rotation |-> pgs[i].rotation]]
  IN IF ~rotate THEN overview
     ELSE [i \in 1..Len(overview) |-> RotateToPortrait(overview[i])]

\* Variant: only the widths are compared.
hasEqualPageWidths(overview) ==
  \A i \in 1..Len(overview) : overview[i].width = overview[1].width

\* pagesOverview.every(size => size.width === first.width && size.height === first.height)
hasEqualPageSizes(overview) ==
  \A i \in 1..Len(overview) :
    /\ overview[i].width = overview[1].width
    /\ overview[i].height = overview[1].height


\* ------------------------------------------------------------ print(): arguments
\* The caller's argument list: omitted arguments take the defaults of line 25.
EffectiveResolution(argList) ==
  IF Len(argList) >= 1 THEN argList[1] ELSE DefaultPrintResolution

EffectiveAutoRotate(argList) ==
  IF Len(argList) >= 2 THEN argList[2] ELSE TRUE

\* Variant: one canvas element is kept and shared by all calls.
SharedCanvas(c) == CHOOSE first \in Calls : \A other \in Calls : first <= other

\* document.createElement returns a new element on every call: the element
\* created by call c is identified by c.
CreateCanvas(c) == c

CreateIframe(c) == c

\* Variant: the size is read with a guard and nothing throws.
PageSizeRuleGuarded(overview) ==
  [threw |-> FALSE,
   size |-> IF Len(overview) = 0 THEN NoSize
            ELSE [width |-> overview[1].width, height |-> overview[1].height]]

\* The template literal of lines 55-56 reads pageSize.width and pageSize.height:
\* with an empty overview firstPageSize is undefined and the read throws.
PageSizeRule(overview) ==
  IF Len(overview) = 0
    THEN [threw |-> TRUE, size |-> NoSize]
    ELSE [threw |-> FALSE,
          size |-> [width |-> overview[1].width, height |-> overview[1].height]]

\* ------------------------------------------------------------ renderPage
\* Lines 194-212: the canvas is resized (which clears it) and filled white.
ResizedCanvas(size, resolution) ==
  [width |-> Floor(size.width, resolution, PointsPerInch),
   height |-> Floor(size.height, resolution, PointsPerInch),
   content |-> <<White>>]

\* Lines 214-223: the page is drawn with transform [PRINT_UNITS,0,0,PRINT_UNITS,0,0]
\* (PRINT_UNITS = resolution / 72, kept as its numerator) and the overview's rotation.
RenderedCanvas(canvas, pageNumber, size, resolution) ==
  [canvas EXCEPT !.content =
     Append(@, [page |-> pageNumber, rotation |-> size.rotation, scale |-> resolution])]

\* Variant: the img's CSS size follows the print resolution.
PrintItemAtResolution(size, resolution) ==
  [width |-> Floor(size.width, resolution, PointsPerInch),
   height |-> Floor(size.height, resolution, PointsPerInch)]

\* Lines 205-206 and 224-227: the img's CSS size, in px.
PrintItem(size, resolution) ==
  [width |-> Floor(size.width, CssPixelsPerInch, PointsPerInch),
   height |-> Floor(size.height, CssPixelsPerInch, PointsPerInch)]

\* ------------------------------------------------------------ useRenderedPage
\* Lines 135-143: the img element; with toBlob its src is set by the callback.
NewImg(printItem, canvas, viaBlob) ==
  [width |-> printItem.width, height |-> printItem.height,
   hasSrc |-> ~viaBlob,
   src |-> IF viaBlob THEN NoCanvas ELSE canvas,
   status |-> "loading"]

LastImg(c) == iframeBody[iframe[c]][Len(iframeBody[iframe[c]])]

SetLastImg(c, img) ==
  [iframeBody EXCEPT ![iframe[c]] = [@ EXCEPT ![Len(@)] = img]]

\* ------------------------------------------------------------ promise settlement
Reject(c, kind, pageNumber) ==
  /\ pc' = [pc EXCEPT ![c] = "done"]
  /\ result' = [result EXCEPT ![c] = "rejected"]
  /\ error' = [error EXCEPT ![c] = [kind |-> kind, page |-> pageNumber]]

\* renderPages, lines 110-118: `while (++currentPage < pageCount)` with the
\* incremented value `next`, then renderPage's synchronous prefix up to getPage.
EnterLoop(c, next, overview, resolution, canvasId) ==
  /\ currentPage' = [currentPage EXCEPT ![c] = next]
  /\ IF next < Len(overview)
       THEN /\ canvases' = [canvases EXCEPT ![canvasId] =
                              ResizedCanvas(overview[next + 1], resolution)]
            /\ getPageLog' = [getPageLog EXCEPT ![c] = Append(@, next + 1)]
            /\ pc' = [pc EXCEPT ![c] = "getPage"]
       ELSE /\ UNCHANGED <<canvases, getPageLog>>
            /\ pc' = [pc EXCEPT ![c] = "print"]

\* ------------------------------------------------------------ actions
\* print(), lines 25-89, and renderPages/renderPage up to the first await.
\* Calls are numbered in the order in which they are made; a call may be made
\* while earlier ones are still pending.
print(c, argList) ==
  /\ pc[c] = "idle"
  /\ \A earlier \in 1..(c - 1) : pc[earlier] # "idle"
  /\ LET resolution == EffectiveResolution(argList)
         rotate == EffectiveAutoRotate(argList)
         canvasId == CreateCanvas(c)
         frameId == CreateIframe(c)
         overview == getPagesOverview(pages, rotate)
         rule == PageSizeRule(overview)
     IN /\ arguments' = [arguments EXCEPT ![c] = argList]
        /\ printResolution' = [printResolution EXCEPT ![c] = resolution]
        /\ autoRotate' = [autoRotate EXCEPT ![c] = rotate]
        /\ scratchCanvas' = [scratchCanvas EXCEPT ![c] = canvasId]
        /\ iframe' = [iframe EXCEPT ![c] = frameId]
        /\ bodyChildren' = bodyChildren \cup {frameId}
        /\ pagesOverview' = [pagesOverview EXCEPT ![c] = overview]
        /\ warnings' = [warnings EXCEPT ![c] =
                          IF hasEqualPageSizes(overview) THEN @ ELSE @ + 1]
        /\ IF rule.threw
             THEN /\ Reject(c, "TypeError", 0)
                  /\ UNCHANGED <<pageStyle, currentPage, canvases, getPageLog>>
             ELSE /\ pageStyle' = [pageStyle EXCEPT ![frameId] = rule.size]
                  /\ EnterLoop(c, 0, overview, resolution, canvasId)
                  /\ UNCHANGED <<result, error>>
        /\ UNCHANGED <<viewerVars, iframeBody, blob, printLog>>

\* await pdfDocument.getPage(pageNumber), line 214; then render() is started.
GetPageResolved(c) ==
  /\ pc[c] = "getPage"
  /\ pc' = [pc EXCEPT ![c] = "render"]
  /\ UNCHANGED <<viewerVars, arguments, printResolution, autoRotate, pagesOverview, currentPage,
                 scratchCanvas, iframe, canvases, iframeBody, pageStyle, bodyChildren,
                 blob, getPageLog, warnings, printLog, result, error>>

GetPageRejected(c) ==
  /\ pc[c] = "getPage"
  /\ Reject(c, "getPage", currentPage[c] + 1)
  /\ UNCHANGED <<viewerVars, arguments, printResolution, autoRotate, pagesOverview, currentPage,
                 scratchCanvas, iframe, canvases, iframeBody, pageStyle, bodyChildren,
                 blob, getPageLog, warnings, printLog>>

\* Variant: useRenderedPage is not awaited (line 120 without `await`), so the
\* loop of renderPages goes on to the next page at once.
RenderResolvedUnawaited(c) ==
  /\ pc[c] = "render"
  /\ LET pageNumber == currentPage[c] + 1
         size == pagesOverview[c][pageNumber]
         canvasId == scratchCanvas[c]
         drawn == RenderedCanvas(canvases[canvasId], pageNumber, size, printResolution[c])
         printItem == PrintItem(size, printResolution[c])
         more == pageNumber < Len(pagesOverview[c])
     IN /\ iframeBody' = [iframeBody EXCEPT ![iframe[c]] =
                            Append(@, NewImg(printItem, drawn, useToBlob))]
        /\ blob' = [blob EXCEPT ![c] = IF useToBlob THEN drawn ELSE @]
        /\ currentPage' = [currentPage EXCEPT ![c] = pageNumber]
        /\ canvases' = [canvases EXCEPT ![canvasId] =
                          IF more
                            THEN ResizedCanvas(pagesOverview[c][pageNumber + 1],
                                               printResolution[c])
                            ELSE drawn]
        /\ getPageLog' = [getPageLog EXCEPT ![c] =
                            IF more THEN Append(@, pageNumber + 1) ELSE @]
        /\ pc' = [pc EXCEPT ![c] = IF more THEN "getPage" ELSE "print"]
  /\ UNCHANGED <<viewerVars, arguments, printResolution, autoRotate, pagesOverview,
                 scratchCanvas, iframe, pageStyle, bodyChildren, warnings,
                 printLog, result, error>>

\* await pdfPage.render(...).promise, line 223; renderPage returns the print
\* item and renderPages calls useRenderedPage (lines 124-153) up to its promise.
RenderResolved(c) ==
  /\ pc[c] = "render"
  /\ LET pageNumber == currentPage[c] + 1
         size == pagesOverview[c][pageNumber]
         canvasId == scratchCanvas[c]
         drawn == RenderedCanvas(canvases[canvasId], pageNumber, size, printResolution[c])
         printItem == PrintItem(size, printResolution[c])
     IN /\ canvases' = [canvases EXCEPT ![canvasId] = drawn]
        /\ iframeBody' = [iframeBody EXCEPT ![iframe[c]] =
                            Append(@, NewImg(printItem, drawn, useToBlob))]
        /\ blob' = [blob EXCEPT ![c] = IF useToBlob THEN drawn ELSE @]
        /\ pc' = [pc EXCEPT ![c] = IF useToBlob THEN "toBlob" ELSE "imgLoad"]
  /\ UNCHANGED <<viewerVars, arguments, printResolution, autoRotate, pagesOverview, currentPage,
                 scratchCanvas, iframe, pageStyle, bodyChildren, getPageLog, warnings,
                 printLog, result, error>>

RenderRejected(c) ==
  /\ pc[c] = "render"
  /\ Reject(c, "render", currentPage[c] + 1)
  /\ UNCHANGED <<viewerVars, arguments, printResolution, autoRotate, pagesOverview, currentPage,
                 scratchCanvas, iframe, canvases, iframeBody, pageStyle, bodyChildren,
                 blob, getPageLog, warnings, printLog>>

\* The toBlob callback of line 140 with a blob: img.src = URL.createObjectURL(blob).
ToBlobDelivered(c) ==
  /\ pc[c] = "toBlob"
  /\ iframeBody' = SetLastImg(c, [LastImg(c) EXCEPT !.hasSrc = TRUE, !.src = blob[c]])
  /\ blob' = [blob EXCEPT ![c] = NoCanvas]
  /\ pc' = [pc EXCEPT ![c] = "imgLoad"]
  /\ UNCHANGED <<viewerVars, arguments, printResolution, autoRotate, pagesOverview, currentPage,
                 scratchCanvas, iframe, canvases, pageStyle, bodyChildren, getPageLog,
                 warnings, printLog, result, error>>

\* The toBlob callback with null (the bitmap could not be encoded):
\* URL.createObjectURL(null) throws inside the callback, img.src stays unset,
\* and the promise of lines 149-152 goes on waiting for load or error.
ToBlobNull(c) ==
  /\ pc[c] = "toBlob"
  /\ blob' = [blob EXCEPT ![c] = NoCanvas]
  /\ pc' = [pc EXCEPT ![c] = "imgLoad"]
  /\ UNCHANGED <<viewerVars, arguments, printResolution, autoRotate, pagesOverview, currentPage,
                 scratchCanvas, iframe, canvases, iframeBody, pageStyle, bodyChildren,
                 getPageLog, warnings, printLog, result, error>>

\* img.onload, line 150: useRenderedPage resolves and the loop of renderPages goes on.
ImgOnload(c) ==
  /\ pc[c] = "imgLoad"
  /\ LastImg(c).hasSrc
  /\ iframeBody' = SetLastImg(c, [LastImg(c) EXCEPT !.status = "loaded"])
  /\ EnterLoop(c, currentPage[c] + 1, pagesOverview[c], printResolution[c], scratchCanvas[c])
  /\ UNCHANGED <<viewerVars, arguments, printResolution, autoRotate, pagesOverview, scratchCanvas,
                 iframe, pageStyle, bodyChildren, blob, warnings, printLog, result, error>>

\* Variant: the error handler resolves instead of rejecting (onerror = resolve).
ImgOnerrorResolves(c) ==
  /\ pc[c] = "imgLoad"
  /\ LastImg(c).hasSrc
  /\ iframeBody' = SetLastImg(c, [LastImg(c) EXCEPT !.status = "broken"])
  /\ EnterLoop(c, currentPage[c] + 1, pagesOverview[c], printResolution[c], scratchCanvas[c])
  /\ UNCHANGED <<viewerVars, arguments, printResolution, autoRotate, pagesOverview,
                 scratchCanvas, iframe, pageStyle, bodyChildren, blob, warnings,
                 printLog, result, error>>

\* The image fails to load (it stays a broken image) and img.onerror, line 151,
\* rejects: useRenderedPage, renderPages and print() reject.
ImgOnerror(c) ==
  /\ pc[c] = "imgLoad"
  /\ LastImg(c).hasSrc
  /\ iframeBody' = SetLastImg(c, [LastImg(c) EXCEPT !.status = "broken"])
  /\ Reject(c, "imgError", currentPage[c] + 1)
  /\ UNCHANGED <<viewerVars, arguments, printResolution, autoRotate, pagesOverview,
                 currentPage, scratchCanvas, iframe, canvases, pageStyle, bodyChildren,
                 blob, getPageLog, warnings, printLog>>

\* Variant: the iframe is removed before the print dialog is invoked.
FinishStepsRemoveFirst == <<"remove", "print">>

\* Lines 97-98: what happens to the iframe once renderPages has resolved, in
\* order: "print" is iframe.contentWindow.print(), "remove" is removeChild.
FinishSteps == <<"print", "remove">>

RECURSIVE RunFinish(_, _, _, _)
RunFinish(steps, frameId, attached, log) ==
  IF steps = <<>> THEN [attached |-> attached, log |-> log]
  ELSE IF Head(steps) = "print"
    THEN RunFinish(Tail(steps), frameId, attached,
                   Append(log, [iframe |-> frameId,
                                attached |-> frameId \in attached,
                                images |-> iframeBody[frameId]]))
    ELSE RunFinish(Tail(steps), frameId, attached \ {frameId}, log)

NativePrint(c) ==
  /\ pc[c] = "print"
  /\ LET after == RunFinish(FinishSteps, iframe[c], bodyChildren, printLog[c])
     IN /\ printLog' = [printLog EXCEPT ![c] = after.log]
        /\ bodyChildren' = after.attached
  /\ pc' = [pc EXCEPT ![c] = "done"]
  /\ result' = [result EXCEPT ![c] = "resolved"]
  /\ UNCHANGED <<viewerVars, arguments, printResolution, autoRotate, pagesOverview, currentPage,
                 scratchCanvas, iframe, canvases, iframeBody, pageStyle, blob,
                 getPageLog, warnings, error>>

\* ------------------------------------------------------------ specifications
InitCalls ==
  /\ pc = [c \in Calls |-> "idle"]
  /\ arguments = [c \in Calls |-> <<>>]
  /\ printResolution = [c \in Calls |-> 0]
  /\ autoRotate = [c \in Calls |-> FALSE]
  /\ pagesOverview = [c \in Calls |-> <<>>]
  /\ currentPage = [c \in Calls |-> -1]
  /\ scratchCanvas = [c \in Calls |-> 0]
  /\ iframe = [c \in Calls |-> 0]
  /\ canvases = [i \in Calls |-> NoCanvas]
  /\ iframeBody = [i \in Calls |-> <<>>]
  /\ pageStyle = [i \in Calls |-> NoSize]
  /\ bodyChildren = {}
  /\ blob = [c \in Calls |-> NoCanvas]
  /\ getPageLog = [c \in Calls |-> <<>>]
  /\ warnings = [c \in Calls |-> 0]
  /\ printLog = [c \in Calls |-> <<>>]
  /\ result = [c \in Calls |-> "pending"]
  /\ error = [c \in Calls |-> NoError]

\* Documents of the overlapping-calls specification: page i of every document
\* has the i-th of these viewports (a portrait, a landscape, a square page, ...).
ViewAt(i) ==
  IF i % 3 = 1 THEN Portrait ELSE IF i % 3 = 2 THEN Landscape ELSE Square

Documents == {[i \in 1..n |-> ViewAt(i)] : n \in 0..MaxPages}

ArgLists == {<<>>, <<72, FALSE>>}

Init ==
  /\ pages \in Documents
  /\ useToBlob \in BOOLEAN
  /\ InitCalls

Complete(c) ==
  \/ GetPageResolved(c)
  \/ GetPageRejected(c)
  \/ RenderResolved(c)
  \/ RenderRejected(c)
  \/ ToBlobDelivered(c)
  \/ ToBlobNull(c)
  \/ ImgOnload(c)
  \/ ImgOnerror(c)
  \/ NativePrint(c)

Next ==
  \E c \in Calls :
    \/ \E argList \in ArgLists : print(c, argList)
    \/ Complete(c)

Spec == Init /\ [][Next]_vars

\* Every external step a call awaits eventually completes, with some outcome.
FairSpec == Spec /\ \A c \in Calls : WF_vars(Complete(c))

\* One call on any document whose pages have any of the viewports.
DataArgLists == {<<>>, <<72>>, <<300, FALSE>>, <<72, FALSE>>}

InitData ==
  /\ pages \in SeqsUpTo(Viewports, MaxPages)
  /\ useToBlob \in BOOLEAN
  /\ InitCalls

NextData ==
  \/ \E argList \in DataArgLists : print(1, argList)
  \/ Complete(1)

SpecData == InitData /\ [][NextData]_vars


\* ------------------------------------------------------------ properties
Started(c) == pc[c] # "idle"

Awaiting(c) == pc[c] \in {"getPage", "render", "toBlob", "imgLoad"}

\* The wrappers in the body of the iframe call c created.
Body(c) == IF iframe[c] = 0 THEN <<>> ELSE iframeBody[iframe[c]]

\* The bitmap of page k of call c: white, then the page drawn once at the call's
\* resolution with the rotation of its overview entry.
PageBitmap(c, k) ==
  LET size == pagesOverview[c][k]
  IN [width |-> (size.width * printResolution[c]) \div 72,
      height |-> (size.height * printResolution[c]) \div 72,
      content |-> <<White, [page |-> k, rotation |-> size.rotation,
                            scale |-> printResolution[c]]>>]

\* The size of a page as the print uses it.
EffectiveSize(view, rotate) ==
  IF rotate /\ view.width > view.height
    THEN [width |-> view.height, height |-> view.width]
    ELSE [width |-> view.width, height |-> view.height]

\* C1: within a call pages are requested as 1, 2, ..., in ascending order without
\* gaps; when page k+1 is started, the image of every earlier page has been
\* captured from the canvas with that page's rendering, appended and loaded; at
\* most one page is in flight (started, image not yet loaded); a resolved call
\* has requested all N pages.
SerialAscendingPages ==
  \A c \in Calls :
    LET log == getPageLog[c]
        body == Body(c)
    IN /\ \A k \in 1..Len(log) : log[k] = k
       /\ Len(log) <= Len(pages)
       /\ \A k \in 1..(Len(log) - 1) :
            /\ k <= Len(body)
            /\ body[k].hasSrc
            /\ body[k].src = PageBitmap(c, k)
            /\ body[k].status = "loaded"
       /\ Len(body) <= Len(log)
       /\ Cardinality({k \in 1..Len(log) :
                         IF k <= Len(body) THEN body[k].status # "loaded" ELSE TRUE}) <= 1
       /\ result[c] = "resolved" => Len(log) = Len(pages)

SecondPageStarted ==
  \E c \in Calls : Len(getPageLog[c]) >= 2 /\ pc[c] = "render"

\* C2: native print is invoked exactly once by a call that resolved and never by
\* another; at the invocation the iframe is attached to the document and its body
\* holds exactly the N page images, in page order and all loaded; the iframe is
\* attached while the call is pending and removed once the call has resolved.
PrintOnceAfterAllLoaded ==
  \A c \in Calls :
    /\ Len(printLog[c]) = IF result[c] = "resolved" THEN 1 ELSE 0
    /\ \A j \in 1..Len(printLog[c]) :
         LET shown == printLog[c][j]
         IN /\ shown.iframe = iframe[c]
            /\ shown.attached
            /\ Len(shown.images) = Len(pages)
            /\ \A k \in 1..Len(shown.images) :
                 /\ shown.images[k].status = "loaded"
                 /\ shown.images[k].hasSrc
                 /\ shown.images[k].src = PageBitmap(c, k)
    /\ result[c] = "resolved" => iframe[c] \notin bodyChildren
    /\ (Started(c) /\ result[c] = "pending") => iframe[c] \in bodyChildren

ResolvedMultiPage ==
  \E c \in Calls : result[c] = "resolved" /\ Len(pages) >= 2

\* C3: when the image of page k fails to load, print() is rejected with that
\* error, pages 1..k and no others have been requested, each once, the body
\* holds k wrappers, and native print has not been invoked.
ImageErrorRejects ==
  \A c \in Calls :
    \A k \in 1..Len(Body(c)) :
      Body(c)[k].status = "broken" =>
        /\ pc[c] = "done"
        /\ result[c] = "rejected"
        /\ error[c] = [kind |-> "imgError", page |-> k]
        /\ getPageLog[c] = [i \in 1..k |-> i]
        /\ Len(Body(c)) = k
        /\ printLog[c] = <<>>

ImageErrorBeforeLastPage ==
  \E c \in Calls :
    /\ error[c].kind = "imgError"
    /\ error[c].page < Len(pages)
    /\ Body(c)[error[c].page].status = "broken"

\* C4: the overview has one entry per page, in page order; with autoRotate every
\* entry has width <= height, a page wider than high is returned with width and
\* height swapped and rotation (rotation + 90) mod 360, which is one of 0, 90,
\* 180, 270, and any other page unchanged; without autoRotate every page is
\* returned as the viewport reports it.
AutoRotateOverview ==
  \A c \in Calls :
    Started(c) =>
      LET overview == pagesOverview[c]
      IN /\ Len(overview) = Len(pages)
         /\ \A i \in 1..Len(pages) :
              IF autoRotate[c]
                THEN /\ overview[i].width <= overview[i].height
                     /\ overview[i].rotation \in {0, 90, 180, 270}
                     /\ IF pages[i].width > pages[i].height
                          THEN overview[i] =
                                 [width |-> pages[i].height, height |-> pages[i].width,
                                  rotation |-> (pages[i].rotation + 90) % 360]
                          ELSE overview[i] = pages[i]
                ELSE overview[i] = pages[i]

LandscapeAtThreeQuarterTurn ==
  \E c \in Calls :
    /\ Started(c)
    /\ autoRotate[c]
    /\ \E i \in 1..Len(pages) :
         pages[i].width > pages[i].height /\ pages[i].rotation = 270

\* C5: once a call of print() has settled, resolved or rejected, the iframe it
\* created is no longer attached to the document body.
NoPersistedState ==
  \A c \in Calls : result[c] # "pending" => iframe[c] \notin bodyChildren

\* C6: a call warns once if some page's size, after auto-rotation, differs from
\* the first page's, and not at all otherwise; the warning stops nothing: the
\* @page size is the first page's, only an empty document makes the size read
\* fail, and a call that resolves has requested all N pages and printed once.
SingleSizeWarning ==
  \A c \in Calls :
    LET differ == \E i \in 1..Len(pages) :
                    EffectiveSize(pages[i], autoRotate[c]) #
                      EffectiveSize(pages[1], autoRotate[c])
    IN /\ warnings[c] = IF Started(c) /\ differ THEN 1 ELSE 0
       /\ (Started(c) /\ Len(pages) > 0) =>
            /\ pageStyle[iframe[c]] = EffectiveSize(pages[1], autoRotate[c])
            /\ error[c].kind # "TypeError"
       /\ result[c] = "resolved" =>
            /\ Len(getPageLog[c]) = Len(pages)
            /\ Len(Body(c)) = Len(pages)
            /\ Len(printLog[c]) = 1

WarnedAndPrinted ==
  \E c \in Calls : warnings[c] = 1 /\ result[c] = "resolved"

\* C7: while a page is being processed the canvas measures
\* floor(width * printResolution / 72) by floor(height * printResolution / 72),
\* the page is drawn with scale printResolution / 72 and the rotation of its
\* overview entry, every img has the CSS size floor(width * 96 / 72) by
\* floor(height * 96 / 72), and print() without arguments uses 300 and true.
PrintDimensions ==
  \A c \in Calls :
    Started(c) =>
      /\ Len(arguments[c]) = 0 => (printResolution[c] = 300 /\ autoRotate[c])
      /\ Len(arguments[c]) >= 1 => printResolution[c] = arguments[c][1]
      /\ Len(arguments[c]) >= 2 => autoRotate[c] = arguments[c][2]
      /\ Awaiting(c) =>
           LET size == pagesOverview[c][currentPage[c] + 1]
               canvas == canvases[scratchCanvas[c]]
           IN /\ canvas.width = (size.width * printResolution[c]) \div 72
              /\ canvas.height = (size.height * printResolution[c]) \div 72
              /\ pc[c] \in {"toBlob", "imgLoad"} =>
                   canvas.content =
                     <<White, [page |-> currentPage[c] + 1, rotation |-> size.rotation,
                               scale |-> printResolution[c]]>>
      /\ \A k \in 1..Len(Body(c)) :
           /\ Body(c)[k].width = (pagesOverview[c][k].width * 96) \div 72
           /\ Body(c)[k].height = (pagesOverview[c][k].height * 96) \div 72

RoundedDownDimensions ==
  \E c \in Calls :
    /\ pc[c] = "imgLoad"
    /\ printResolution[c] = 72
    /\ pagesOverview[c][1].height = 5
    /\ Body(c)[1].height = 6
    /\ canvases[scratchCanvas[c]].height = 5

\* C8: every call of print() that was started eventually settles.
EventuallySettles ==
  \A c \in Calls : (pc[c] # "idle") ~> (result[c] # "pending")

\* C9: calls that overlap hold different canvases and iframes; every image in a
\* call's container has that call's rendering of its own page; a call's iframe is
\* attached until that call resolves, whatever the other calls do; a resolved
\* call printed once, on its own iframe, exactly its own N page images.
OverlappingCallsIsolated ==
  \A c \in Calls :
    Started(c) =>
      /\ \A d \in Calls \ {c} :
           Started(d) => (scratchCanvas[c] # scratchCanvas[d] /\ iframe[c] # iframe[d])
      /\ Len(Body(c)) <= Len(pages)
      /\ \A k \in 1..Len(Body(c)) :
           Body(c)[k].hasSrc => Body(c)[k].src = PageBitmap(c, k)
      /\ iframe[c] \in bodyChildren <=> result[c] # "resolved"
      /\ result[c] = "resolved" =>
           /\ Len(Body(c)) = Len(pages)
           /\ printLog[c] = <<[iframe |-> iframe[c], attached |-> TRUE,
                               images |-> Body(c)]>>

TwoCallsInFlight ==
  \E c \in Calls :
    \E d \in Calls \ {c} :
      /\ pc[c] = "imgLoad" /\ LastImg(c).hasSrc /\ Len(Body(c)) >= 2
      /\ pc[d] = "render" /\ Len(Body(d)) >= 1

\* C10: with a viewer of zero pages a call warns nothing, is rejected by the
\* failing read of the first page's size, requests no page and never invokes
\* native print; native print is never invoked on a container without images.
ZeroPagesNeverPrint ==
  /\ \A c \in Calls :
       (Started(c) /\ Len(pages) = 0) =>
         /\ pc[c] = "done"
         /\ warnings[c] = 0
         /\ result[c] = "rejected"
         /\ error[c] = [kind |-> "TypeError", page |-> 0]
         /\ getPageLog[c] = <<>>
         /\ printLog[c] = <<>>
  /\ \A c \in Calls :
       \A j \in 1..Len(printLog[c]) : Len(printLog[c][j].images) >= 1

ZeroPageCallRejected ==
  \E c \in Calls : Started(c) /\ Len(pages) = 0 /\ result[c] = "rejected"

====
